---- MODULE Spec2Model ----
(***************************************************************************)
(* A model of the gin-compress middleware: the buffering-then-streaming    *)
(* response writer (respWriter), the byte-counting trackingResponseWriter, *)
(* and the request-level orchestration (negotiation of Accept-Encoding,    *)
(* the bounded Content-Encoding decode chain) around them.                 *)
(*                                                                         *)
(* Bytes are integers.  The writer never inspects the bytes it is given,   *)
(* so the application writes the fixed stream 1, 2, 3, ... in chunks of    *)
(* its own choosing: every byte is distinct, and a dropped, duplicated or  *)
(* reordered byte is visible.                                              *)
(***************************************************************************)
EXTENDS Integers, Sequences, FiniteSets

\* Bounds of the model.
MaxWrites == 3
MaxWriteLen == 1
MaxFails == 1
MaxThreshold == 3
MaxTokens == 2
MaxEncodings == 2
MaxSteps == 2

VARIABLES
    cfg,          \* compressOptions: minCompressBytes, enabled, priority, maxDecodeSteps, decompressBody, excluded
    req,          \* the request: Accept-Encoding (ae) and Content-Encoding (ce) headers
    phase,        \* "start" | "rejected" | "app" | "done" (| "negotiated" | "decoded" in the pure-function specs)
    mode,         \* which writer the middleware installed: "none" | "resp" | "track"
    stages,       \* number of decoder stages wrapped around the request body
    encoding,     \* respWriter.encoding (the negotiated token; NoAlgo when none)
    hdr,          \* response header map: Content-Length, Content-Encoding, Vary
    buf,          \* respWriter.buf contents
    bufNil,       \* respWriter.buf == nil
    compressor,   \* respWriter.compressor
    bytesWritten, \* respWriter.bytesWritten
    compressedBytesCount, \* respWriter.compressedBytesCount
    twBytesWritten,       \* trackingResponseWriter.bytesWritten
    transport,    \* bytes the underlying gin.ResponseWriter accepted, in order
    reported,     \* the MetricsData values handed to the metrics handler, in order
    ret,          \* what the last Write returned: [n, err]
    closeRet,     \* what Close returned: "none" (not called) | "nil" | "err"
    accepted,     \* history: the bytes of the application actually taken into buf or an encoder
    attempted,    \* history: total len(b) over all Write calls
    encIn,        \* history: the bytes handed to the live encoder
    nEncoders,    \* history: encoder streams instantiated
    writesLeft,   \* Write calls the application still makes
    stripped,     \* history: a Write or WriteHeader removed a Content-Length that was set
    nFails,       \* history: failed encoder/transport calls
    setSince      \* history: the application set Content-Length after the respWriter's last Write or WriteHeader

vars == <<cfg, req, phase, mode, stages, encoding, hdr, buf, bufNil, compressor,
          bytesWritten, compressedBytesCount, twBytesWritten, transport, reported, ret,
          closeRet, accepted, attempted, encIn, nEncoders, writesLeft, stripped, nFails,
          setSince>>

(***************************************************************************)
(* Algorithms and headers                                                  *)
(***************************************************************************)
\* The four supported algorithms, in the default (fallback) order.
FallbackOrder == <<"br", "gzip", "deflate", "zstd">>
Algos == {FallbackOrder[i] : i \in 1..Len(FallbackOrder)}
Rank(a) == CHOOSE i \in 1..Len(FallbackOrder) : FallbackOrder[i] = a
NoAlgo == "none"
NoVal == "<unset>"
HeaderNames == {"Content-Length", "Content-Encoding", "Vary"}
NoHeaders == [k \in HeaderNames |-> NoVal]

\* http.Header.Del / Set on the three headers the writer touches.
HeaderDel(h, k) == [h EXCEPT ![k] = NoVal]
HeaderSet(h, k, v) == [h EXCEPT ![k] = v]

Prefix(s, n) == SubSeq(s, 1, n)
Suffix(s, n) == SubSeq(s, n + 1, Len(s))
\* The next l bytes of the application's body.
Chunk(l) == [i \in 1..l |-> attempted + i]

(***************************************************************************)
(* Negotiation engine (Accept-Encoding -> algorithm)                       *)
(*                                                                         *)
(* A header is [present, tokens]; a token is [name, q] with q the raw text *)
(* after ";q=" ("" when the token has no q).                               *)
(***************************************************************************)
\* The q texts the model draws from; "bad" stands for any malformed value.
QTexts == {"", "0", "0.5", "1", "bad"}
TokenNames == Algos \cup {"*", "doesnotexist"}
Tokens == [name : TokenNames, q : QTexts]

\* q in tenths; absent or malformed q is 1.0.
ParseQ(raw) ==
    CASE raw = "0" -> 0
      [] raw = "0.3" -> 3
      [] raw = "0.5" -> 5
      [] raw = "0.7" -> 7
      [] raw = "1" -> 10
      [] OTHER -> 10

\* Algorithm a is explicitly rejected by name (a;q=0) somewhere in the header.
RejectedByName(tokens, a) ==
    \E i \in 1..Len(tokens) : tokens[i].name = a /\ ParseQ(tokens[i].q) = 0

\* Token tok makes algorithm a a candidate.
MatchesDisabled(tok, a, tokens, c) ==
    /\ ParseQ(tok.q) > 0
    /\ \/ tok.name = a
       \/ tok.name = "*" /\ ~RejectedByName(tokens, a)

Matches(tok, a, tokens, c) ==
    /\ ParseQ(tok.q) > 0
    /\ a \in c.enabled
    /\ \/ tok.name = a
       \/ tok.name = "*" /\ ~RejectedByName(tokens, a)

\* Candidate x wins over candidate y: q, then priority, then the fallback order.
BetterIgnoringQ(x, y, c) ==
    \/ c.priority[x.algo] > c.priority[y.algo]
    \/ c.priority[x.algo] = c.priority[y.algo] /\ Rank(x.algo) < Rank(y.algo)

Better(x, y, c) ==
    \/ x.q > y.q
    \/ x.q = y.q /\ c.priority[x.algo] > c.priority[y.algo]
    \/ x.q = y.q /\ c.priority[x.algo] = c.priority[y.algo] /\ Rank(x.algo) < Rank(y.algo)

RECURSIVE Select(_, _, _, _, _)
Select(tokens, i, j, best, c) ==
    IF i > Len(tokens) THEN best
    ELSE IF j > Len(FallbackOrder) THEN Select(tokens, i + 1, 1, best, c)
    ELSE LET cand == [algo |-> FallbackOrder[j], q |-> ParseQ(tokens[i].q)]
             take == /\ Matches(tokens[i], cand.algo, tokens, c)
                     /\ (best.algo = NoAlgo \/ Better(cand, best, c))
         IN  Select(tokens, i, j + 1, IF take THEN cand ELSE best, c)

Negotiate(ae, c) ==
    IF c.excluded THEN NoAlgo
    ELSE IF ~ae.present \/ ae.tokens = <<>> THEN NoAlgo
    ELSE Select(ae.tokens, 1, 1, [algo |-> NoAlgo, q |-> 0], c).algo

(***************************************************************************)
(* Decompression pipeline (request Content-Encoding -> decoder stages)     *)
(***************************************************************************)
\* Stops after maxDecodeSteps stages and passes the rest on undecoded.
RECURSIVE DecodeChainTruncating(_, _, _)
DecodeChainTruncating(tokens, i, c) ==
    IF i > Len(tokens) \/ i > c.maxDecodeSteps THEN [steps |-> i - 1, reject |-> FALSE]
    ELSE IF tokens[i] \notin c.enabled THEN [steps |-> i - 1, reject |-> TRUE]
    ELSE DecodeChainTruncating(tokens, i + 1, c)

RECURSIVE DecodeChain(_, _, _)
DecodeChain(tokens, i, c) ==
    IF i > Len(tokens) THEN [steps |-> i - 1, reject |-> FALSE]
    ELSE IF i > c.maxDecodeSteps THEN [steps |-> i - 1, reject |-> TRUE]
    ELSE IF tokens[i] \notin c.enabled THEN [steps |-> i - 1, reject |-> TRUE]
    ELSE DecodeChain(tokens, i + 1, c)

Decompress(ce, c) ==
    IF ~c.decompressBody \/ ~ce.present THEN [steps |-> 0, reject |-> FALSE]
    ELSE DecodeChain(ce.tokens, 1, c)

(***************************************************************************)
(* The encoder stream an algorithm builds on the output sink.  The codecs  *)
(* are external; the model keeps what the writer relies on: an encoder     *)
(* takes input bytes, holds output it has not emitted yet (pend), emits    *)
(* any part of it to the sink on a Write, and emits the rest and an end    *)
(* mark on Close.  The stream is a magic byte naming the algorithm, one    *)
(* output byte for each input byte, and the end mark.                      *)
(***************************************************************************)
Magic(enc) == 1000 + Rank(enc)
EndMark(enc) == 2000 + Rank(enc)
Encode(p) == [i \in 1..Len(p) |-> p[i] + 100]
NoCompressor == [live |-> FALSE, enc |-> NoAlgo, pend |-> <<>>]
getWriter(enc) == [live |-> TRUE, enc |-> enc, pend |-> <<Magic(enc)>>]

\* The outcomes of compressor.Write(p): n bytes of p taken, out emitted to
\* the sink, err set when the call failed.  A successful call takes all of p
\* and either keeps its output pending or flushes all of it; a failed call
\* stops anywhere short of having done both.
EncWrite(c, p) ==
    { [comp |-> [c EXCEPT !.pend = Suffix(c.pend \o Encode(Prefix(p, n)), e)],
       out |-> Prefix(c.pend \o Encode(Prefix(p, n)), e),
       n |-> n, err |-> f] :
      <<f, n, e>> \in { t \in BOOLEAN \X (0..Len(p)) \X (0..(Len(c.pend) + Len(p))) :
                          /\ t[1] \/ t[2] = Len(p)
                          /\ t[1] \/ t[3] \in {0, Len(c.pend) + t[2]}
                          /\ t[1] => (t[2] < Len(p) \/ t[3] < Len(c.pend) + t[2]
                                       \/ Len(c.pend) + Len(p) = 0)
                          /\ t[3] <= Len(c.pend) + t[2] } }

\* The outcomes of compressor.Close(): on success everything pending and the
\* end mark reach the sink; on failure only part of it does.
EncClose(c) ==
    LET all == c.pend \o <<EndMark(c.enc)>>
    IN  { [out |-> Prefix(all, e), err |-> f] :
          <<f, e>> \in { t \in BOOLEAN \X (0..Len(all)) : t[1] <=> t[2] < Len(all) } }

\* The outcomes of the underlying gin.ResponseWriter.Write(p).
SinkWrite(p) ==
    { [n |-> n, err |-> f] :
      <<f, n>> \in { t \in BOOLEAN \X (0..Len(p)) :
                       /\ t[1] \/ t[2] = Len(p)
                       /\ t[1] => (t[2] < Len(p) \/ Len(p) = 0) } }

\* What a client decoding the transport bytes obtains.
Decode(out) ==
    IF /\ Len(out) >= 2
       /\ \E a \in Algos : out[1] = Magic(a) /\ out[Len(out)] = EndMark(a)
       /\ \A i \in 2..(Len(out) - 1) : out[i] > 100 /\ out[i] < 1000
    THEN [ok |-> TRUE,
          enc |-> CHOOSE a \in Algos : out[1] = Magic(a),
          data |-> [i \in 1..(Len(out) - 2) |-> out[i + 1] - 100]]
    ELSE [ok |-> FALSE, enc |-> NoAlgo, data |-> <<>>]

(***************************************************************************)
(* respWriter                                                              *)
(***************************************************************************)
threshold == cfg.minCompressBytes

\* Swapped read off the compressor field instead of the buffer.
SwappedByCompressor == compressor.live

Swapped == bufNil

\* The test that starts the swap to the compressor.
ShouldSwapOffByOne(b) == ~Swapped /\ Len(buf) + Len(b) >= threshold - 1

ShouldSwapStrict(b) == ~Swapped /\ Len(buf) + Len(b) > threshold

ShouldSwap(b) == ~Swapped /\ Len(buf) + Len(b) >= threshold

\* trackingResponseWriter.Write: the count after the sink took n bytes.
TrackCount(count, n, err) == count + n

GetCompressionApplied == Swapped

GetEncoding == IF GetCompressionApplied THEN encoding ELSE ""

GetOriginalSize == bytesWritten

GetCompressedSizeFromField == compressedBytesCount

GetCompressedSize == IF GetCompressionApplied THEN twBytesWritten ELSE bytesWritten

GetMetricsData ==
    [OriginalSize |-> GetOriginalSize,
     CompressedSize |-> GetCompressedSize,
     CompressionApplied |-> GetCompressionApplied,
     EncodingUsed |-> GetEncoding]

\* The header edits at the top of Write and of the swap.
WriteHeadersDelOnSwap(h, swap) ==
    IF swap
    THEN HeaderSet(HeaderSet(HeaderDel(h, "Content-Length"), "Content-Encoding", encoding),
                   "Vary", "Accept-Encoding")
    ELSE h

WriteHeaders(h, swap) ==
    LET h0 == HeaderDel(h, "Content-Length")
    IN  IF swap
        THEN HeaderSet(HeaderSet(h0, "Content-Encoding", encoding), "Vary", "Accept-Encoding")
        ELSE h0

\* bytesWritten after w.Write(b) returned (n, err).
CountWritten(count, n, err) == IF err THEN count ELSE count + n

\* respWriter.Write(b).
respWrite(b) ==
    LET swap == ShouldSwap(b)
        c0 == IF swap THEN getWriter(encoding) ELSE compressor
        \* io.Copy(rw.compressor, rw.buf): one compressor.Write of the buffered
        \* bytes, none when the buffer is empty.
        drains == IF swap /\ Len(buf) > 0
                  THEN EncWrite(c0, buf)
                  ELSE {[comp |-> c0, out |-> <<>>, n |-> 0, err |-> FALSE]}
    IN  /\ hdr' = WriteHeaders(hdr, swap)
        /\ nEncoders' = IF swap THEN nEncoders + 1 ELSE nEncoders
        /\ \E d \in drains :
             IF d.err
             THEN \* the drain failed: return int(copied), err; buf keeps the rest
                  /\ nFails < MaxFails
                  /\ nFails' = nFails + 1
                  /\ buf' = Suffix(buf, d.n)
                  /\ bufNil' = FALSE
                  /\ compressor' = d.comp
                  /\ transport' = transport \o d.out
                  /\ twBytesWritten' = TrackCount(twBytesWritten, Len(d.out), TRUE)
                  /\ ret' = [n |-> d.n, err |-> TRUE]
                  /\ encIn' = Prefix(buf, d.n)
                  /\ UNCHANGED <<bytesWritten, accepted>>
             ELSE IF swap \/ Swapped
             THEN \* w = rw.compressor
                  \E w \in EncWrite(d.comp, b) :
                    /\ w.err => nFails < MaxFails
                    /\ nFails' = IF w.err THEN nFails + 1 ELSE nFails
                    /\ buf' = <<>>
                    /\ bufNil' = TRUE
                    /\ compressor' = w.comp
                    /\ transport' = transport \o d.out \o w.out
                    /\ twBytesWritten' =
                         TrackCount(TrackCount(twBytesWritten, Len(d.out), FALSE), Len(w.out), w.err)
                    /\ ret' = [n |-> w.n, err |-> w.err]
                    /\ bytesWritten' = CountWritten(bytesWritten, w.n, w.err)
                    /\ accepted' = accepted \o Prefix(b, w.n)
                    /\ encIn' = (IF swap THEN buf ELSE encIn) \o Prefix(b, w.n)
             ELSE \* w = rw.buf
                  /\ buf' = buf \o b
                  /\ ret' = [n |-> Len(b), err |-> FALSE]
                  /\ bytesWritten' = CountWritten(bytesWritten, Len(b), FALSE)
                  /\ accepted' = accepted \o b
                  /\ UNCHANGED <<bufNil, compressor, transport, twBytesWritten, encIn, nFails>>

\* trackingResponseWriter.Write(b), when the tracking writer is the response writer.
trackWrite(b) ==
    \E s \in SinkWrite(b) :
      /\ s.err => nFails < MaxFails
      /\ nFails' = IF s.err THEN nFails + 1 ELSE nFails
      /\ transport' = transport \o Prefix(b, s.n)
      /\ twBytesWritten' = TrackCount(twBytesWritten, s.n, s.err)
      /\ ret' = [n |-> s.n, err |-> s.err]
      /\ accepted' = accepted \o Prefix(b, s.n)
      /\ UNCHANGED <<hdr, buf, bufNil, compressor, bytesWritten, encIn, nEncoders>>

WriteCall(b) ==
    /\ phase = "app"
    /\ writesLeft > 0
    /\ writesLeft' = writesLeft - 1
    /\ attempted' = attempted + Len(b)
    /\ IF mode = "resp" THEN respWrite(b) ELSE trackWrite(b)
    /\ stripped' = (stripped \/ hdr'["Content-Length"] # hdr["Content-Length"])
    /\ setSince' = (mode # "resp" /\ setSince)
    /\ UNCHANGED <<cfg, req, phase, mode, stages, encoding,
                   compressedBytesCount, reported, closeRet>>

Write == \E l \in 0..MaxWriteLen : WriteCall(Chunk(l))

\* WriteString(s) is Write([]byte(s)).
WriteString == \E l \in 1..MaxWriteLen : WriteCall(Chunk(l))

\* The header edit of WriteHeader.
WriteHeaderHeadersKeep(h) == h

WriteHeaderHeaders(h) == HeaderDel(h, "Content-Length")

WriteHeader ==
    /\ phase = "app"
    /\ hdr' = IF mode = "resp" THEN WriteHeaderHeaders(hdr) ELSE hdr
    /\ stripped' = (stripped \/ hdr'["Content-Length"] # hdr["Content-Length"])
    /\ setSince' = (mode # "resp" /\ setSince)
    /\ UNCHANGED <<cfg, req, phase, mode, stages, encoding, buf, bufNil, compressor,
                   bytesWritten, compressedBytesCount, twBytesWritten, transport,
                   reported, ret, closeRet, accepted, attempted, encIn, nEncoders,
                   writesLeft, nFails>>

\* The application sets Content-Length through Header().
SetContentLength ==
    /\ phase = "app"
    /\ hdr' = HeaderSet(hdr, "Content-Length", "10")
    /\ setSince' = (mode = "resp")
    /\ UNCHANGED <<cfg, req, phase, mode, stages, encoding, buf, bufNil,
                   compressor, bytesWritten, compressedBytesCount, twBytesWritten,
                   transport, reported, ret, closeRet, accepted, attempted, encIn,
                   nEncoders, writesLeft, stripped, nFails>>

\* The deferred function of Close: how often the metrics handler runs, given
\* whether the body of Close returned an error.
MetricsCallsUnlessError(err) == IF err THEN 0 ELSE 1

MetricsCalls(err) == 1

\* What Close returns for the error of its flush or of the encoder's Close.
CloseResultSwallowed(err) == "nil"

CloseResult(err) == IF err THEN "err" ELSE "nil"

\* respWriter.Close().
respClose ==
    /\ \/ /\ ~Swapped
          /\ Len(buf) = 0
          /\ closeRet' = "nil"
          /\ UNCHANGED <<buf, compressor, transport, twBytesWritten, nFails>>
       \/ /\ ~Swapped
          /\ Len(buf) > 0
          /\ \E s \in SinkWrite(buf) :
               /\ s.err => nFails < MaxFails
               /\ nFails' = IF s.err THEN nFails + 1 ELSE nFails
               /\ transport' = transport \o Prefix(buf, s.n)
               /\ twBytesWritten' = TrackCount(twBytesWritten, s.n, s.err)
               /\ buf' = Suffix(buf, s.n)
               /\ closeRet' = CloseResult(s.err)
          /\ UNCHANGED compressor
       \/ /\ Swapped
          /\ \E r \in EncClose(compressor) :
               /\ r.err => nFails < MaxFails
               /\ nFails' = IF r.err THEN nFails + 1 ELSE nFails
               /\ transport' = transport \o r.out
               /\ twBytesWritten' = TrackCount(twBytesWritten, Len(r.out), r.err)
               /\ compressor' = [compressor EXCEPT !.pend = <<>>, !.live = FALSE]
               /\ closeRet' = CloseResult(r.err)
          /\ UNCHANGED buf
    /\ UNCHANGED <<bufNil, bytesWritten, encoding>>
    /\ compressedBytesCount' = IF GetCompressionApplied' THEN twBytesWritten'
                               ELSE compressedBytesCount
    /\ reported' = reported \o [i \in 1..MetricsCalls(closeRet' = "err") |-> GetMetricsData']

\* trackingResponseWriter.Close().
trackClose ==
    /\ reported' = Append(reported,
                          [OriginalSize |-> twBytesWritten,
                           CompressedSize |-> twBytesWritten,
                           CompressionApplied |-> FALSE,
                           EncodingUsed |-> ""])
    /\ closeRet' = "nil"
    /\ UNCHANGED <<buf, bufNil, compressor, bytesWritten, encoding, compressedBytesCount,
                   twBytesWritten, transport, nFails>>

\* The middleware finalizes the writer when the application has returned.
Close ==
    /\ phase = "app"
    /\ phase' = "done"
    /\ IF mode = "resp" THEN respClose ELSE trackClose
    /\ UNCHANGED <<cfg, req, mode, stages, hdr, ret, accepted, attempted,
                   encIn, nEncoders, writesLeft, stripped, setSince>>

(***************************************************************************)
(* The middleware                                                          *)
(***************************************************************************)
\* Which writer the middleware installs for a negotiation outcome.
WriterFor(algo) == IF algo = NoAlgo THEN "track" ELSE "resp"

\* Handler: decode the request body, negotiate, install the writer, run the
\* application (phase "app"); a rejected request never reaches the application.
Handler ==
    /\ phase = "start"
    /\ LET d == Decompress(req.ce, cfg)
           a == Negotiate(req.ae, cfg)
       IN  /\ stages' = d.steps
           /\ IF d.reject
              THEN /\ phase' = "rejected"
                   /\ UNCHANGED <<mode, encoding>>
              ELSE /\ phase' = "app"
                   /\ mode' = WriterFor(a)
                   /\ encoding' = a
    /\ UNCHANGED <<cfg, req, hdr, buf, bufNil, compressor, bytesWritten,
                   compressedBytesCount, twBytesWritten, transport, reported, ret,
                   closeRet, accepted, attempted, encIn, nEncoders, writesLeft, stripped,
                   nFails, setSince>>

(***************************************************************************)
(* Specifications                                                          *)
(***************************************************************************)
DefaultPriority == [a \in Algos |-> 0]
Header(tokens) == [present |-> TRUE, tokens |-> tokens]
Absent == [present |-> FALSE, tokens |-> <<>>]
Tok(name, q) == [name |-> name, q |-> q]

\* The state after construction, for a configuration from C and a request from R.
InitWith(C, R, W) ==
    /\ cfg \in C
    /\ req \in R
    /\ phase = "start"
    /\ mode = "none"
    /\ stages = 0
    /\ encoding = NoAlgo
    /\ hdr = NoHeaders
    /\ buf = <<>>
    /\ bufNil = FALSE
    /\ compressor = NoCompressor
    /\ bytesWritten = 0
    /\ compressedBytesCount = 0
    /\ twBytesWritten = 0
    /\ transport = <<>>
    /\ reported = <<>>
    /\ ret = [n |-> 0, err |-> FALSE]
    /\ closeRet = "none"
    /\ accepted = <<>>
    /\ attempted = 0
    /\ encIn = <<>>
    /\ nEncoders = 0
    /\ writesLeft \in W
    /\ stripped = FALSE
    /\ nFails = 0
    /\ setSince = FALSE

\* Responses of every threshold, with an algorithm negotiated or not.
WriterConfigs ==
    [minCompressBytes : 0..MaxThreshold, enabled : {Algos}, priority : {DefaultPriority},
     maxDecodeSteps : {1}, decompressBody : {TRUE}, excluded : {FALSE}]
WriterRequests ==
    [ae : {Header(<<Tok("gzip", "")>>), Header(<<Tok("zstd", "0.5"), Tok("br", "0")>>), Absent},
     ce : {Absent}]

Init == InitWith(WriterConfigs, WriterRequests, {MaxWrites})

\* The negotiation engine alone, over every header of up to MaxTokens tokens.
NegotiateStep ==
    /\ phase = "start"
    /\ phase' = "negotiated"
    /\ encoding' = Negotiate(req.ae, cfg)
    /\ UNCHANGED <<cfg, req, mode, stages, hdr, buf, bufNil, compressor, bytesWritten,
                   compressedBytesCount, twBytesWritten, transport, reported, ret,
                   closeRet, accepted, attempted, encIn, nEncoders, writesLeft, stripped,
                   nFails, setSince>>

SeqsUpTo(S, n) == UNION {[1..k -> S] : k \in 0..n}
HeadersUpTo(n) == {Header(t) : t \in SeqsUpTo(Tokens, n)} \cup {Absent}
\* The headers of the repository's tests TestQ and "Priority".
TestQHeader == Header(<<Tok("br", "0.5"), Tok("gzip", "0.7"), Tok("deflate", "0.3")>>)
PriorityHeader == Header(<<Tok("br", ""), Tok("gzip", ""), Tok("deflate", ""), Tok("zstd", "")>>)

NegotiateConfigs ==
    [minCompressBytes : {512},
     enabled : {Algos, Algos \ {"br"}, {"gzip"}},
     priority : {DefaultPriority, [DefaultPriority EXCEPT !["zstd"] = 1]},
     maxDecodeSteps : {1}, decompressBody : {TRUE}, excluded : BOOLEAN]
NegotiateRequests ==
    [ae : HeadersUpTo(MaxTokens) \cup {TestQHeader, PriorityHeader}, ce : {Absent}]

InitNegotiate == InitWith(NegotiateConfigs, NegotiateRequests, {0})

NextNegotiate == NegotiateStep

SpecNegotiate == InitNegotiate /\ [][NextNegotiate]_vars

\* Whole requests with a threshold of one byte: every Accept-Encoding header
\* of at most one token (and two of two), or every Content-Encoding chain of
\* up to MaxEncodings encodings under every decode-step budget up to MaxSteps.
AcceptConfigs ==
    [minCompressBytes : {1}, enabled : {Algos, Algos \ {"gzip"}},
     priority : {DefaultPriority}, maxDecodeSteps : {1}, decompressBody : {TRUE},
     excluded : BOOLEAN]
AcceptRequests ==
    [ae : HeadersUpTo(1) \cup {Header(<<Tok("doesnotexist", ""), Tok("gzip", "0")>>),
                               Header(<<Tok("gzip", "0"), Tok("*", "0.5")>>)},
     ce : {Absent}]
DecodeConfigs ==
    [minCompressBytes : {1}, enabled : {Algos, Algos \ {"br"}},
     priority : {DefaultPriority}, maxDecodeSteps : 0..MaxSteps, decompressBody : BOOLEAN,
     excluded : {FALSE}]
DecodeRequests ==
    [ae : {Header(<<Tok("gzip", "")>>)},
     ce : {Header(t) : t \in SeqsUpTo({"gzip", "br", "doesnotexist"}, MaxEncodings)}
          \cup {Absent}]

InitRequest ==
    \/ InitWith(AcceptConfigs, AcceptRequests, {2})
    \/ InitWith(DecodeConfigs, DecodeRequests, {1})

Next ==
    \/ Handler
    \/ Write
    \/ WriteString
    \/ WriteHeader
    \/ SetContentLength
    \/ Close

Spec == Init /\ [][Next]_vars

SpecRequest == InitRequest /\ [][Next]_vars

(***************************************************************************)
(* Properties                                                              *)
(***************************************************************************)
HasContentEncoding == hdr["Content-Encoding"] # NoVal
HasVary == hdr["Vary"] # NoVal
HasContentLength == hdr["Content-Length"] # NoVal

\* C1 (threshold floor): while the Write calls made so far total fewer than
\* minCompressBytes bytes, and so also when Close follows them, the writer
\* has not swapped, has built no encoder, and has set neither
\* Content-Encoding nor Vary, whichever encoding was negotiated.
C1_ThresholdFloor ==
    attempted < threshold =>
        /\ ~Swapped
        /\ ~compressor.live
        /\ nEncoders = 0
        /\ ~HasContentEncoding
        /\ ~HasVary

C1_Witness ==
    /\ phase = "done"
    /\ mode = "resp"
    /\ encoding = "zstd"
    /\ attempted > 0
    /\ attempted < threshold
    /\ Len(reported) = 1

\* C2 (headers iff compression applied): once Close has run, the response
\* carries Content-Encoding and Vary: Accept-Encoding exactly when the
\* reported MetricsData.CompressionApplied is true, also after a failed write.
C2_HeadersIffCompressionApplied ==
    phase = "done" =>
        \A i \in 1..Len(reported) :
            /\ HasContentEncoding <=> reported[i].CompressionApplied
            /\ hdr["Vary"] = "Accept-Encoding" <=> reported[i].CompressionApplied

\* C3 (metrics exactly once): the metrics handler has not run before Close
\* and has run exactly once after it, on the passthrough path, on the
\* compressed path, and when the final flush or the encoder close failed.
C3_MetricsExactlyOnce ==
    /\ phase \in {"start", "app"} => Len(reported) = 0
    /\ phase = "done" => Len(reported) = 1

C3_Witness ==
    /\ phase = "done"
    /\ mode = "resp"
    /\ Swapped
    /\ closeRet = "err"
    /\ Len(reported) = 1

\* C4 (round trip): when the writer swapped to compression and Close
\* succeeded, the bytes handed to the encoder are exactly the bytes the
\* writer took from the application, in order, and decoding the transport
\* output yields them.
C4_RoundTrip ==
    (phase = "done" /\ mode = "resp" /\ Swapped /\ closeRet = "nil") =>
        /\ encIn = accepted
        /\ Decode(transport).ok
        /\ Decode(transport).data = accepted

\* C5 (metrics without compression): a reported MetricsData with
\* CompressionApplied = false has CompressedSize = OriginalSize, an empty
\* EncodingUsed, and OriginalSize equal to the number of bytes the writer
\* took from the application.
C5_MetricsNotApplied ==
    \A i \in 1..Len(reported) :
        ~reported[i].CompressionApplied =>
            /\ reported[i].CompressedSize = reported[i].OriginalSize
            /\ reported[i].EncodingUsed = ""
            /\ reported[i].OriginalSize = Len(accepted)

C5_Witness ==
    /\ phase = "done"
    /\ mode = "resp"
    /\ encoding = "gzip"
    /\ Len(reported) = 1
    /\ ~reported[1].CompressionApplied
    /\ reported[1].OriginalSize > 0

\* C6 (metrics with compression): a reported MetricsData with
\* CompressionApplied = true names the negotiated encoding, has OriginalSize
\* equal to the number of uncompressed bytes the writer took from the
\* application, and CompressedSize equal to the number of bytes that
\* reached the transport, the encoder's closing output included.
C6_MetricsApplied ==
    \A i \in 1..Len(reported) :
        reported[i].CompressionApplied =>
            /\ reported[i].EncodingUsed = encoding
            /\ reported[i].OriginalSize = Len(accepted)
            /\ reported[i].CompressedSize = Len(transport)

\* C9 (Content-Length stripped): every step that is a Write, a WriteString
\* or a WriteHeader on the respWriter leaves the response headers without
\* Content-Length, whatever the application had set before.
C9_NoContentLengthAfterWrite ==
    [][(mode = "resp" /\ (Write \/ WriteString \/ WriteHeader)) => ~HasContentLength']_vars

C9_Witness ==
    /\ mode = "resp"
    /\ stripped
    /\ ~HasContentLength
    /\ attempted > 0

\* The candidates of a header: the enabled algorithms a token with q > 0
\* names, with that q; with wildcards, also those a "*" token with q > 0
\* stands for, which are the ones no token rejects by name with q = 0.
C7_Candidates(wildcards) ==
    LET t == req.ae.tokens
    IN  { x \in [algo : cfg.enabled, q : 1..10] :
            \E i \in 1..Len(t) :
              /\ ParseQ(t[i].q) = x.q
              /\ \/ t[i].name = x.algo
                 \/ /\ wildcards
                    /\ t[i].name = "*"
                    /\ ~\E j \in 1..Len(t) : t[j].name = x.algo /\ ParseQ(t[j].q) = 0 }

\* x is a maximum of S by q, then configured priority, then br > gzip > deflate > zstd.
C7_IsBest(x, S) ==
    \A y \in S :
        \/ y.q < x.q
        \/ y.q = x.q /\ cfg.priority[y.algo] < cfg.priority[x.algo]
        \/ y.q = x.q /\ cfg.priority[y.algo] = cfg.priority[x.algo] /\ Rank(x.algo) <= Rank(y.algo)

\* C7 as stated (negotiation): the chosen algorithm is the best of the
\* enabled algorithms that a token with q > 0 names, and none is chosen only
\* when there is no such algorithm.
C7_Negotiation ==
    phase = "negotiated" =>
        IF C7_Candidates(FALSE) = {}
        THEN encoding = NoAlgo
        ELSE \E x \in C7_Candidates(FALSE) : x.algo = encoding /\ C7_IsBest(x, C7_Candidates(FALSE))

\* C7 as amended (negotiation): unless the exclusion predicate excludes the
\* request, the chosen algorithm is the best (highest q, then priority,
\* then br > gzip > deflate > zstd) of the enabled algorithms that a token
\* with q > 0 names or that a "*" token with q > 0 stands for; with no such
\* algorithm, or an excluded request, none is chosen.
C7_NegotiationAmended ==
    phase = "negotiated" =>
        IF cfg.excluded \/ C7_Candidates(TRUE) = {}
        THEN encoding = NoAlgo
        ELSE \E x \in C7_Candidates(TRUE) : x.algo = encoding /\ C7_IsBest(x, C7_Candidates(TRUE))

C7_Witness ==
    /\ phase = "negotiated"
    /\ ~cfg.excluded
    /\ cfg.enabled = Algos
    /\ req.ae = TestQHeader
    /\ encoding = "gzip"

\* The header is absent or empty, or each of its tokens has q = 0 or names
\* an encoding that is unknown or disabled.
C8_NoneAcceptable ==
    \/ ~req.ae.present
    \/ \A i \in 1..Len(req.ae.tokens) :
         \/ ParseQ(req.ae.tokens[i].q) = 0
         \/ req.ae.tokens[i].name \notin (cfg.enabled \cup {"*"})

\* C8 (no acceptable encoding): with such a header no compression is
\* applied, whatever the body size: the writer never swaps, the response
\* has neither Content-Encoding nor Vary, the transport holds exactly the
\* bytes taken from the application, and when nothing failed it holds the
\* whole body.
C8_NoAcceptableEncoding ==
    (C8_NoneAcceptable /\ phase \in {"app", "done"}) =>
        /\ mode = "track"
        /\ ~Swapped
        /\ nEncoders = 0
        /\ ~HasContentEncoding
        /\ ~HasVary
        /\ transport = accepted
        /\ nFails = 0 => transport = [i \in 1..attempted |-> i]
        /\ \A i \in 1..Len(reported) : ~reported[i].CompressionApplied

C8_Witness ==
    /\ phase = "done"
    /\ req.ae = Header(<<Tok("doesnotexist", "")>>)
    /\ attempted > threshold
    /\ transport = <<1, 2>>

IsWriteStep == writesLeft' = writesLeft - 1
IsCloseStep == phase = "app" /\ phase' = "done"

\* A byte of the body on the transport, raw or encoded: not an encoder's
\* stream header or end mark.
C11_IsBodyByte(x) == x < 1000

\* C11 (ordering): on the respWriter, whenever bytes have reached the
\* transport on the compressed path, Content-Encoding (the negotiated
\* encoding) and Vary are set; and while the writer is still buffering
\* (Swapped() is false and Close has not run) no body byte has reached the
\* transport.
C11_HeadersBeforeBytes ==
    mode = "resp" =>
        /\ (transport # <<>> /\ (Swapped \/ compressor.live)) =>
               (hdr["Content-Encoding"] = encoding /\ hdr["Vary"] = "Accept-Encoding")
        /\ (~Swapped /\ phase = "app") => SelectSeq(transport, C11_IsBodyByte) = <<>>

\* C12 (swap at the threshold): with an algorithm negotiated, the writer has
\* swapped exactly when some Write has brought the total of the bytes
\* written to minCompressBytes or more; checked in every state, this puts
\* the swap in the first such Write and in no earlier one.
C12_SwapAtThreshold ==
    (mode = "resp" /\ phase \in {"app", "done"}) =>
        (Swapped <=> (writesLeft < MaxWrites /\ attempted >= threshold))

\* C13 (Swapped is monotonic): no step of Write, WriteString, WriteHeader or
\* Close takes Swapped from true back to false, so it turns true at most once.
C13_SwappedMonotonic ==
    [][Swapped => Swapped']_vars

C13_Witness ==
    /\ phase = "done"
    /\ mode = "resp"
    /\ Swapped
    /\ Len(accepted) >= 2
    /\ stripped

\* C14 (one encoder): at most one encoder stream is built on the sink per
\* response, also over writes whose drain of the buffer fails.
C14_AtMostOneEncoder ==
    nEncoders <= 1

\* C15 as stated (no Content-Length while the writer could swap): whenever
\* the respWriter has not swapped, before Close and when Close flushes the
\* buffer, the response headers have no Content-Length.
C15_NoContentLengthWhileBuffering ==
    (mode = "resp" /\ ~Swapped) => ~HasContentLength

\* C15 as amended: whenever the respWriter has not swapped, before Close and
\* when Close flushes the buffer, the only Content-Length the response
\* headers can have is one the application set after the writer's last
\* Write, WriteString or WriteHeader.
C15_NoStaleContentLength ==
    (mode = "resp" /\ ~Swapped) => (HasContentLength => setSince)

C15_Witness ==
    /\ phase = "done"
    /\ mode = "resp"
    /\ ~Swapped
    /\ stripped
    /\ ~HasContentLength
    /\ Len(transport) = 2

\* C16 (passthrough): when Close ran while the writer was still buffering
\* and returned no error, the transport holds exactly the bytes the writer
\* took from the application, in order, and as many bytes as the reported
\* OriginalSize.
C16_Passthrough ==
    (phase = "done" /\ mode = "resp" /\ ~Swapped /\ closeRet = "nil") =>
        /\ transport = accepted
        /\ Len(reported) = 1
        /\ Len(transport) = reported[1].OriginalSize

\* C17 (bounded buffering): for minCompressBytes > 0 the buffer holds fewer
\* than minCompressBytes bytes after every step; once the writer has swapped
\* the buffer is gone, and a Write after the swap hands the bytes it takes
\* to the encoder and leaves nothing in the writer.
C17_BoundedBuffering ==
    [][/\ threshold > 0 => Len(buf') < threshold
       /\ Swapped' => buf' = <<>>
       /\ (mode = "resp" /\ Swapped /\ IsWriteStep) =>
              /\ buf' = <<>>
              /\ Len(accepted') - Len(accepted) = ret'.n
              /\ encIn' = encIn \o SubSeq(accepted', Len(accepted) + 1, Len(accepted'))]_vars

C17_Witness ==
    /\ phase = "done"
    /\ mode = "resp"
    /\ threshold = 2
    /\ Swapped
    /\ encIn = <<1, 2, 3>>

\* C18 (originalSize): every Write on the respWriter adds to bytesWritten
\* (Size(), GetOriginalSize()) the count it returns, so that bytesWritten
\* is the number of bytes taken from the application, also when the Write
\* returns an error.
C18_OriginalSizeIsSumOfReturns ==
    [][(mode = "resp" /\ IsWriteStep) =>
           /\ bytesWritten' = bytesWritten + ret'.n
           /\ bytesWritten' = Len(accepted')]_vars

\* C19 (errors are not swallowed): a Write during which the encoder or the
\* transport failed returns an error; a Close whose flush or encoder close
\* failed returns an error and still reports the metrics once.
C19_ErrorsNotSwallowed ==
    [][/\ (IsWriteStep /\ nFails' > nFails) => ret'.err
       /\ (IsCloseStep /\ nFails' > nFails) =>
              (closeRet' = "err" /\ Len(reported') = Len(reported) + 1)]_vars

C19_Witness ==
    /\ phase = "done"
    /\ mode = "resp"
    /\ ~Swapped
    /\ nEncoders = 0
    /\ closeRet = "err"
    /\ Len(reported) = 1
    /\ Len(transport) < Len(accepted)

\* C20 (write contract): every Write(b) on the respWriter returns a count n
\* with 0 <= n <= len(b) that is the number of bytes of b the writer took,
\* also when the drain of the buffer fails.
C20_WriteCount ==
    [][(mode = "resp" /\ IsWriteStep) =>
           /\ ret'.n >= 0
           /\ ret'.n <= attempted' - attempted
           /\ ret'.n = Len(accepted') - Len(accepted)]_vars

====
